---- MODULE Spec2Model ----
(***************************************************************************)
(* nudl: the node USB device labeler.  A model of the key codec            *)
(* (hexKey, humanReadableKey, genKey), the inventory collector (scanUSB),  *)
(* the label merger (filter, merge), the patch protocol (scanAndLabel,     *)
(* cleanUp) and the scheduler loop of Main.                                *)
(*                                                                         *)
(* Strings are sequences of one-character strings, so that prefixes,       *)
(* lengths and character classes are computed and not assumed.             *)
(***************************************************************************)
EXTENDS Integers, Sequences, FiniteSets, TLC

VARIABLES
    \* configuration (the flags read as process-wide variables)
    labelPrefix,      \* *labelPrefix
    humanReadable,    \* *humanReadable
    noContain,        \* *noContain
    only,             \* *only
    \* the process: the control loop of Main and its cycle goroutines
    mainPc,           \* where the control loop of Main (or main) stands
    mutex,            \* the sync.Mutex of Main: TRUE when locked
    ch,               \* signals buffered in the channel ch (capacity 1)
    ctxCancelled,     \* whether cancel() of the cycle context was called
    cycles,           \* the goroutines started by the timer case, by number
    started,          \* how many cycle goroutines were started
    ticks,            \* how many times time.After fired
    exitStatus,       \* the exit status of the process, -1 while it runs
    msrvClosed,       \* whether msrv.Close() was called
    reconcilingCounter, \* the counter vector, by its "success" label
    clean,            \* the locals of cleanUp
    \* the registry
    nodeLabels,       \* the labels of the node as the API server holds them
    writes,           \* how many times another actor wrote the node's labels
    \* history of the run, read by the properties only
    hist,
    \* the pure functions, applied to drawn inputs
    pure

vars == <<labelPrefix, humanReadable, noContain, only, mainPc, mutex, ch,
          ctxCancelled, cycles, started, ticks, exitStatus, msrvClosed,
          reconcilingCounter, clean, nodeLabels, writes, hist, pure>>

configVars == <<labelPrefix, humanReadable, noContain, only>>
procVars == <<mainPc, mutex, ch, ctxCancelled, cycles, started, ticks,
              exitStatus, msrvClosed, reconcilingCounter, clean,
              nodeLabels, writes, hist>>

----------------------------------------------------------------------------
(* Strings *)

\* strings.HasPrefix(s, p)
HasPrefix(s, p) == Len(s) >= Len(p) /\ SubSeq(s, 1, Len(p)) = p

\* strings.Contains(s, sub)
Contains(s, sub) ==
    \E i \in 1..(Len(s) + 1) :
        i + Len(sub) - 1 <= Len(s) /\ SubSeq(s, i, i + Len(sub) - 1) = sub

UpperCase == <<"A", "B", "C", "D", "E", "F", "G", "H", "I", "J", "K", "L", "M", "N", "O", "P", "Q", "R", "S", "T", "U", "V", "W", "X", "Y", "Z">>
LowerCase == <<"a", "b", "c", "d", "e", "f", "g", "h", "i", "j", "k", "l", "m", "n", "o", "p", "q", "r", "s", "t", "u", "v", "w", "x", "y", "z">>
Digits == <<"0", "1", "2", "3", "4", "5", "6", "7", "8", "9">>

Range(s) == {s[i] : i \in DOMAIN s}

\* strings.ToLower(s)
ToLower(s) ==
    [i \in DOMAIN s |->
        IF \E j \in DOMAIN UpperCase : UpperCase[j] = s[i]
        THEN LowerCase[CHOOSE j \in DOMAIN UpperCase : UpperCase[j] = s[i]]
        ELSE s[i]]

\* the string of n copies of the character c
Rep(c, n) == [i \in 1..n |-> c]

----------------------------------------------------------------------------
(* Label maps.  A Go map is nil or holds entries; reading and deleting     *)
(* work on a nil map, assigning into it panics.                            *)

NilMap == [nil |-> TRUE, kv |-> << >>]
MakeMap(f) == [nil |-> FALSE, kv |-> f]
Keys(m) == DOMAIN m.kv

\* delete(m, k) for every k of ks
Delete(m, ks) == [m EXCEPT !.kv = [k \in (DOMAIN m.kv) \ ks |-> m.kv[k]]]

\* the maps over the keys ks with values in vs, nil apart
MapsOver(ks, vs) ==
    {MakeMap(f) : f \in UNION {[d -> vs] : d \in SUBSET ks}}

----------------------------------------------------------------------------
(* Label merger *)

\* filter: the entries of m whose key starts with *labelPrefix
filter(m) ==
    MakeMap([k \in {x \in Keys(m) : HasPrefix(x, labelPrefix)} |-> m.kv[k]])

\* merge with a delete loop that stops after the first stale key
merge_DeleteOne(l, ul) ==
    LET all == {k \in Keys(filter(l)) : k \notin Keys(ul)}
        stale == IF all = {} THEN {} ELSE {CHOOSE k \in all : TRUE}
        kept == Delete(l, stale)
    IN  IF Keys(ul) = {}
        THEN [panic |-> FALSE, l |-> kept]
        ELSE IF l.nil
        THEN [panic |-> TRUE, l |-> NilMap]
        ELSE [panic |-> FALSE,
              l |-> MakeMap([k \in Keys(kept) \cup Keys(ul) |->
                        IF k \in Keys(ul) THEN ul.kv[k] ELSE kept.kv[k]])]

\* merge without the delete loop
merge_KeepStale(l, ul) ==
    IF Keys(ul) = {}
    THEN [panic |-> FALSE, l |-> l]
    ELSE IF l.nil
    THEN [panic |-> TRUE, l |-> NilMap]
    ELSE [panic |-> FALSE,
          l |-> MakeMap([k \in Keys(l) \cup Keys(ul) |->
                    IF k \in Keys(ul) THEN ul.kv[k] ELSE l.kv[k]])]

\* merge: the outcome of merge(l, ul): the returned map, or a panic when an
\* entry is assigned into a nil l
merge(l, ul) ==
    LET stale == {k \in Keys(filter(l)) : k \notin Keys(ul)}
        kept == Delete(l, stale)
    IN  IF Keys(ul) = {}
        THEN [panic |-> FALSE, l |-> kept]
        ELSE IF l.nil
        THEN [panic |-> TRUE, l |-> NilMap]
        ELSE [panic |-> FALSE,
              l |-> MakeMap([k \in Keys(kept) \cup Keys(ul) |->
                        IF k \in Keys(ul) THEN ul.kv[k] ELSE kept.kv[k]])]

----------------------------------------------------------------------------
(* Key codec *)

MaxLabelLen == 63

\* gousb.ID is a uint16
IDs == 0..65535

HexDigits == <<"0", "1", "2", "3", "4", "5", "6", "7", "8", "9", "a", "b", "c", "d", "e", "f">>

\* the %x verb: the shortest lower-case hexadecimal numeral of n
RECURSIVE Hex(_)
Hex(n) ==
    IF n < 16 THEN <<HexDigits[n + 1]>>
    ELSE Hex(n \div 16) \o <<HexDigits[(n % 16) + 1]>>

\* ID.String() with the %x verb, no padding
IDString_NoPad(id) == Hex(id)

\* gousb.ID.String(): the %04x verb, zero-padded to a width of at least 4
IDString(id) ==
    LET h == Hex(id)
    IN  Rep("0", IF Len(h) < 4 THEN 4 - Len(h) ELSE 0) \o h

\* usbid.Vendors, a map from vendor ID to *Vendor: the entries the model
\* knows.  Any other vendor ID maps to a nil *Vendor.
Vendors ==
    (32902 :> [Name |-> <<"I", "n", "t", "e", "l", " ", "C", "o", "r", "p", ".">>,
               Product |-> (68 :> <<"C", "P", "U", " ", "D", "R", "A", "M", " ", "C", "o", "n", "t", "r", "o", "l", "l", "e", "r">>)])
    @@ (1 :> [Name |-> <<"F", "r", "y", "'", "s", " ", "E", "l", "e", "c", "t", "r", "o", "n", "i", "c", "s">>,
              Product |-> (30584 :> <<"C", "o", "u", "n", "t", "e", "r", "f", "e", "i", "t", " ", "f", "l", "a", "s", "h", " ", "d", "r", "i", "v", "e", " ", "[", "K", "i", "n", "g", "s", "t", "o", "n", "]">>)])

\* usbid.Describe(desc)
Describe(desc) ==
    IF desc.Vendor \in DOMAIN Vendors
    THEN LET v == Vendors[desc.Vendor]
         IN  IF desc.Product \in DOMAIN v.Product
             THEN v.Product[desc.Product] \o <<" ", "(">> \o v.Name \o <<")">>
             ELSE <<"U", "n", "k", "n", "o", "w", "n", " ", "(">> \o v.Name \o <<")">>
    ELSE <<"U", "n", "k", "n", "o", "w", "n", " ">> \o IDString(desc.Vendor) \o <<":">> \o IDString(desc.Product)

sPrintLabelKey(k) == labelPrefix \o <<"/">> \o k

\* hexKey formatting the vendor ID twice
hexKey_VendorTwice(desc) ==
    IDString(desc.Vendor) \o <<"_">> \o IDString(desc.Vendor)

hexKey(desc) == IDString(desc.Vendor) \o <<"_">> \o IDString(desc.Product)

\* the characters regTrim leaves alone: \w and . _ -
TrimKeep ==
    Range(UpperCase) \cup Range(LowerCase) \cup Range(Digits) \cup {"_", ".", "-"}

\* regTrim.ReplaceAll(s, "") : the characters are removed, not replaced
regTrim_Drop(s) == SelectSeq(s, LAMBDA c : c \in TrimKeep)

\* regTrim.ReplaceAll(s, "-")
regTrim(s) == [i \in DOMAIN s |-> IF s[i] \in TrimKeep THEN s[i] ELSE "-"]

\* humanReadableKey: the key, an error when the product is unknown, or a
\* panic when the vendor is unknown (vendor is nil and vendor.Name reads it)
humanReadableKey(desc) ==
    IF desc.Vendor \notin DOMAIN Vendors
    THEN [panic |-> TRUE, err |-> FALSE, key |-> << >>]
    ELSE LET vendor == Vendors[desc.Vendor]
         IN  IF desc.Product \in DOMAIN vendor.Product
             THEN [panic |-> FALSE, err |-> FALSE,
                   key |-> regTrim(vendor.Name) \o <<"_">>
                           \o regTrim(vendor.Product[desc.Product])]
             ELSE [panic |-> FALSE, err |-> TRUE, key |-> << >>]

\* genKey without the test of the length of the key
genKey_NoLengthCheck(desc) ==
    IF humanReadable
    THEN LET r == humanReadableKey(desc)
             key == IF r.err THEN hexKey(desc) ELSE r.key
         IN  IF r.panic
             THEN [panic |-> TRUE, key |-> << >>]
             ELSE [panic |-> FALSE, key |-> sPrintLabelKey(key)]
    ELSE [panic |-> FALSE, key |-> sPrintLabelKey(hexKey(desc))]

\* genKey cutting a key that is too long down to 63 characters
genKey_Truncate(desc) ==
    IF humanReadable
    THEN LET r == humanReadableKey(desc)
             key == IF r.err THEN hexKey(desc) ELSE r.key
             labelKey == sPrintLabelKey(key)
         IN  IF r.panic
             THEN [panic |-> TRUE, key |-> << >>]
             ELSE IF Len(labelKey) > MaxLabelLen
             THEN [panic |-> FALSE, key |-> SubSeq(labelKey, 1, MaxLabelLen)]
             ELSE [panic |-> FALSE, key |-> labelKey]
    ELSE [panic |-> FALSE, key |-> sPrintLabelKey(hexKey(desc))]

\* genKey: the label key of a device, or a panic of humanReadableKey
genKey(desc) ==
    IF humanReadable
    THEN LET r == humanReadableKey(desc)
             key == IF r.err THEN hexKey(desc) ELSE r.key
             labelKey == sPrintLabelKey(key)
         IN  IF r.panic
             THEN [panic |-> TRUE, key |-> << >>]
             ELSE IF Len(labelKey) > MaxLabelLen
             THEN [panic |-> FALSE, key |-> sPrintLabelKey(hexKey(desc))]
             ELSE [panic |-> FALSE, key |-> labelKey]
    ELSE [panic |-> FALSE, key |-> sPrintLabelKey(hexKey(desc))]

----------------------------------------------------------------------------
(* Inventory collector *)

\* createLabels comparing without strings.ToLower
excluded_CaseSensitive(desc) ==
    \E i \in DOMAIN noContain : Contains(Describe(desc), noContain[i])

\* createLabels: whether the callback returns before genKey
excluded(desc) ==
    \E i \in DOMAIN noContain :
        Contains(ToLower(Describe(desc)), ToLower(noContain[i]))

\* scanUSB returning only the entries of --only that were found
scanUSB_OnlyFound(devs, scanErr) ==
    LET kept == {d \in devs : ~excluded(d)}
        l == MakeMap([k \in {genKey(d).key : d \in kept} |-> "true"])
        onlyKeys == {sPrintLabelKey(only[i]) : i \in DOMAIN only}
        onlyLabels == MakeMap([k \in onlyKeys \cap Keys(l) |-> "true"])
    IN  IF scanErr = "list"
        THEN [panic |-> FALSE, err |-> TRUE, l |-> NilMap]
        ELSE IF \E d \in kept : genKey(d).panic
        THEN [panic |-> TRUE, err |-> FALSE, l |-> NilMap]
        ELSE IF scanErr = "desc"
        THEN [panic |-> FALSE, err |-> TRUE, l |-> NilMap]
        ELSE IF Len(only) > 0
        THEN [panic |-> FALSE, err |-> FALSE, l |-> onlyLabels]
        ELSE [panic |-> FALSE, err |-> FALSE, l |-> l]

\* scanUSB over the attached devices devs.  scanErr is what OpenDevices
\* reports: "none", "list" (the device list cannot be read, the callback
\* is not called) or "desc" (a descriptor cannot be read, the callback is
\* called for the devices devs and the error is returned afterwards).
scanUSB(devs, scanErr) ==
    LET kept == {d \in devs : ~excluded(d)}
        l == MakeMap([k \in {genKey(d).key : d \in kept} |-> "true"])
        onlyKeys == {sPrintLabelKey(only[i]) : i \in DOMAIN only}
        onlyLabels ==
            MakeMap([k \in onlyKeys |->
                IF k \in Keys(l) THEN "true" ELSE "false"])
    IN  IF scanErr = "list"
        THEN [panic |-> FALSE, err |-> TRUE, l |-> NilMap]
        ELSE IF \E d \in kept : genKey(d).panic
        THEN [panic |-> TRUE, err |-> FALSE, l |-> NilMap]
        ELSE IF scanErr = "desc"
        THEN [panic |-> FALSE, err |-> TRUE, l |-> NilMap]
        ELSE IF Len(only) > 0
        THEN [panic |-> FALSE, err |-> FALSE, l |-> onlyLabels]
        ELSE [panic |-> FALSE, err |-> FALSE, l |-> l]

----------------------------------------------------------------------------
(* Bounds of the model *)

MaxTokens == 2      \* managed keys the drawn label maps range over
MaxPrefixLen == 54  \* longest drawn label prefix
MaxTicks == 2       \* times the timer fires in a run
MaxWrites == 1      \* writes of other actors to the node's labels

DefaultPrefix == <<"n", "u", "d", "l", ".", "s", "q", "u", "a", "t", ".", "a", "i">>

----------------------------------------------------------------------------
(* The process before Main runs, and the process of a specification that   *)
(* only applies a pure function.                                           *)

NoPatch == [kind |-> "empty", set |-> << >>, del |-> {}]

\* sent: the registry received the patch request of the cycle
NoCycle ==
    [pc |-> "unstarted", node |-> NilMap, nl |-> NilMap, patch |-> NoPatch,
     err |-> FALSE, contended |-> FALSE, sent |-> FALSE]

NoClean == [node |-> NilMap, fetched |-> FALSE, applied |-> FALSE]

\* signalled: a signal was delivered to the process; taken: the control loop
\* received it from ch; contended: the mutex was locked when the last tick
\* fired; drained: a cycle was in flight when the signal was taken;
\* log: the steps of the shutdown handler so far; dirty: another actor set a
\* key under <prefix>/ after cleanUp fetched the node; startedAfterSignal: a
\* cycle goroutine was started after a signal was delivered
NoHist ==
    [signalled |-> FALSE, taken |-> FALSE, contended |-> FALSE,
     drained |-> FALSE, log |-> << >>, dirty |-> FALSE,
     startedAfterSignal |-> FALSE]

ProcInit(pc) ==
    /\ mainPc = pc
    /\ mutex = FALSE
    /\ ch = 0
    /\ ctxCancelled = FALSE
    /\ cycles = [c \in 1..MaxTicks |-> NoCycle]
    /\ started = 0
    /\ ticks = 0
    /\ exitStatus = -1
    /\ msrvClosed = FALSE
    /\ reconcilingCounter = [true |-> 0, false |-> 0]
    /\ clean = NoClean
    /\ writes = 0
    /\ hist = NoHist

----------------------------------------------------------------------------
(* merge applied to drawn label maps *)

Tokens == <<<<"8", "0", "8", "6", "_", "0", "0", "4", "4">>, <<"f", "f", "f", "e", "_", "0", "0", "0", "1">>, <<"0", "0", "0", "1", "_", "7", "7", "7", "8">>>>

\* keys under <prefix>/
ManagedKeys == {sPrintLabelKey(Tokens[i]) : i \in 1..MaxTokens}

\* a key of another owner, and a key of another owner whose DNS prefix
\* starts with the characters of *labelPrefix
ForeignKeys == {<<"k", "8", "s", ".", "i", "o", "/", "h", "o", "s", "t">>, labelPrefix \o <<".", "x", "/", "y">>}

LabelValues == {"true", "false"}

\* whether k is <prefix>/<token>
UnderPrefix(k) == HasPrefix(k, labelPrefix \o <<"/">>)

InitMerge ==
    /\ labelPrefix = DefaultPrefix
    /\ humanReadable = FALSE
    /\ noContain = << >>
    /\ only = << >>
    /\ ProcInit("off")
    /\ nodeLabels = << >>
    /\ \E l \in MapsOver(ManagedKeys \cup ForeignKeys, LabelValues) \cup {NilMap},
          ul \in MapsOver(ManagedKeys \cup {<<"k", "8", "s", ".", "i", "o", "/", "h", "o", "s", "t">>}, LabelValues) :
          pure = [op |-> "merge", step |-> 0, l |-> l, ul |-> ul,
                  once |-> [panic |-> FALSE, l |-> NilMap],
                  twice |-> [panic |-> FALSE, l |-> NilMap]]

\* node.ObjectMeta.Labels = merge(node.ObjectMeta.Labels, nl)
MergeOnce ==
    /\ pure.op = "merge" /\ pure.step = 0
    /\ pure' = [pure EXCEPT !.step = 1, !.once = merge(pure.l, pure.ul)]
    /\ UNCHANGED <<configVars, procVars>>

\* merge applied to the map the first merge returned, when it returned
MergeTwice ==
    /\ pure.op = "merge" /\ pure.step = 1
    /\ pure' = [pure EXCEPT !.step = 2,
                  !.twice = IF pure.once.panic THEN pure.once
                            ELSE merge(pure.once.l, pure.ul)]
    /\ UNCHANGED <<configVars, procVars>>

NextMerge == MergeOnce \/ MergeTwice

SpecMerge == InitMerge /\ [][NextMerge]_vars

\* whether the drawn inventory is one scanUSB can return: every key is
\* <prefix>/<token>
IsInventory(ul) == \A k \in Keys(ul) : UnderPrefix(k)

\* C7: merge is idempotent: whenever merge(E, I) returns, merging I into
\* the returned map returns, and returns that same map.
C7_MergeIdempotent ==
    (pure.op = "merge" /\ pure.step = 2 /\ ~pure.once.panic)
        => (~pure.twice.panic /\ pure.twice.l = pure.once.l)

\* a merge that removed two stale keys and added a key, applied twice
C7_Witness ==
    /\ pure.op = "merge" /\ pure.step = 2 /\ ~pure.once.panic
    /\ Cardinality(Keys(pure.l) \ Keys(pure.once.l)) >= 2
    /\ Keys(pure.once.l) \ Keys(pure.l) # {}

\* C8: merge never touches foreign keys: for an inventory whose keys are all
\* under <prefix>/, every key of E that is not under <prefix>/ is in
\* merge(E, I) with its value unchanged.
C8_ForeignKeysKept ==
    (pure.op = "merge" /\ pure.step >= 1 /\ IsInventory(pure.ul))
        => \A f \in Keys(pure.l) :
              ~UnderPrefix(f)
                 => /\ ~pure.once.panic
                    /\ f \in Keys(pure.once.l)
                    /\ pure.once.l.kv[f] = pure.l.kv[f]

\* C9: after merge(E, I), for an inventory I, the keys of the result under
\* <prefix>/ are exactly the keys of I, each with the value I gives it.
C9_ManagedKeysAreInventory ==
    (pure.op = "merge" /\ pure.step >= 1 /\ IsInventory(pure.ul)
     /\ ~pure.once.panic)
        => /\ {k \in Keys(pure.once.l) : UnderPrefix(k)} = Keys(pure.ul)
           /\ \A k \in Keys(pure.ul) : pure.once.l.kv[k] = pure.ul.kv[k]

\* a merge that removed a managed key of E, added a key of I and changed
\* the value of a key of both
C9_Witness ==
    /\ pure.op = "merge" /\ pure.step >= 1 /\ IsInventory(pure.ul)
    /\ ~pure.once.panic
    /\ \E k \in Keys(pure.l) : UnderPrefix(k) /\ k \notin Keys(pure.ul)
    /\ \E k \in Keys(pure.ul) :
          k \in Keys(pure.l) /\ pure.l.kv[k] # pure.ul.kv[k]
    /\ \E k \in Keys(pure.l) : ~UnderPrefix(k)

----------------------------------------------------------------------------
(* genKey applied to drawn devices and prefixes *)

SampleIDs == {0, 1, 10, 68, 255, 512, 4096, 30584, 32902, 65534, 65535}

KeyPrefixes == {DefaultPrefix} \cup {Rep("a", n) : n \in 0..MaxPrefixLen}

InitKey ==
    /\ labelPrefix \in KeyPrefixes
    /\ humanReadable \in BOOLEAN
    /\ noContain = << >>
    /\ only = << >>
    /\ ProcInit("off")
    /\ nodeLabels = << >>
    /\ \E v \in SampleIDs \cap IDs, p \in SampleIDs \cap IDs :
          pure = [op |-> "genKey", step |-> 0,
                  desc |-> [Vendor |-> v, Product |-> p],
                  ret |-> [panic |-> FALSE, key |-> << >>]]

CallGenKey ==
    /\ pure.op = "genKey" /\ pure.step = 0
    /\ pure' = [pure EXCEPT !.step = 1, !.ret = genKey(pure.desc)]
    /\ UNCHANGED <<configVars, procVars>>

NextKey == CallGenKey

SpecKey == InitKey /\ [][NextKey]_vars

\* the value of a lower-case hexadecimal numeral
RECURSIVE HexValue(_)
HexValue(s) ==
    IF s = << >> THEN 0
    ELSE 16 * HexValue(SubSeq(s, 1, Len(s) - 1))
         + (CHOOSE d \in 0..15 : HexDigits[d + 1] = s[Len(s)])

\* whether key is <prefix>/<vvvv>_<pppp>, four lower-case hexadecimal digits
\* for each code of desc
IsRawKey(key, desc) ==
    LET n == Len(labelPrefix)
    IN  /\ Len(key) = n + 10
        /\ SubSeq(key, 1, n) = labelPrefix
        /\ key[n + 1] = "/"
        /\ \A i \in (n + 2)..(n + 5) : key[i] \in Range(HexDigits)
        /\ key[n + 6] = "_"
        /\ \A i \in (n + 7)..(n + 10) : key[i] \in Range(HexDigits)
        /\ HexValue(SubSeq(key, n + 2, n + 5)) = desc.Vendor
        /\ HexValue(SubSeq(key, n + 7, n + 10)) = desc.Product

\* C10 as claimed: in raw mode genKey returns <prefix>/<vvvv>_<pppp>, at
\* most 63 characters long, for every label prefix.
C10_RawKeyAtMost63 ==
    (pure.op = "genKey" /\ pure.step = 1 /\ ~humanReadable)
        => /\ ~pure.ret.panic
           /\ IsRawKey(pure.ret.key, pure.desc)
           /\ Len(pure.ret.key) <= MaxLabelLen

\* C10 as amended: in raw mode genKey returns <prefix>/<vvvv>_<pppp>, ten
\* characters longer than the prefix: at most 63 characters long exactly
\* when the prefix is at most 53 characters long.
C10_RawKey ==
    (pure.op = "genKey" /\ pure.step = 1 /\ ~humanReadable)
        => /\ ~pure.ret.panic
           /\ IsRawKey(pure.ret.key, pure.desc)
           /\ (Len(pure.ret.key) <= MaxLabelLen
                  <=> Len(labelPrefix) <= MaxLabelLen - 10)

\* the raw key of the device 8086:0044 under the default prefix
C10_Witness ==
    /\ pure.op = "genKey" /\ pure.step = 1 /\ ~humanReadable
    /\ pure.desc = [Vendor |-> 32902, Product |-> 68]
    /\ pure.ret.key = <<"n", "u", "d", "l", ".", "s", "q", "u", "a", "t", ".", "a", "i", "/", "8", "0", "8", "6", "_", "0", "0", "4", "4">>

\* whether usbid knows no name for the vendor of desc, or none for its
\* product
Unresolved(desc) ==
    \/ desc.Vendor \notin DOMAIN Vendors
    \/ desc.Product \notin DOMAIN Vendors[desc.Vendor].Product

\* C11: in human-readable mode, for every device whose vendor name or
\* product name is not known, genKey returns (without a panic) the raw key
\* <prefix>/<vvvv>_<pppp>.
C11_UnresolvedFallsBackToRaw ==
    (pure.op = "genKey" /\ pure.step = 1 /\ humanReadable
     /\ Unresolved(pure.desc))
        => /\ ~pure.ret.panic
           /\ IsRawKey(pure.ret.key, pure.desc)

\* the characters the sanitizing leaves alone: [A-Za-z0-9._-]
AllowedChars ==
    Range(UpperCase) \cup Range(LowerCase) \cup Range(Digits)
        \cup {".", "_", "-"}

\* s with each character outside [A-Za-z0-9._-] replaced by one "-"
Sanitize(s) ==
    [i \in DOMAIN s |-> IF s[i] \in AllowedChars THEN s[i] ELSE "-"]

\* <prefix>/sanitize(vendor name)_sanitize(product name) of a device with
\* both names known
HumanKey(desc) ==
    labelPrefix \o <<"/">> \o Sanitize(Vendors[desc.Vendor].Name) \o <<"_">>
        \o Sanitize(Vendors[desc.Vendor].Product[desc.Product])

IsPrefixOf(s, t) == Len(s) <= Len(t) /\ SubSeq(t, 1, Len(s)) = s

\* C12: in human-readable mode, when the key built from the known names is
\* longer than 63 characters, genKey returns the raw key of the device, and
\* the key it returns is no truncated form (no proper prefix) of the
\* human-readable key.
C12_TooLongFallsBackToRaw ==
    (pure.op = "genKey" /\ pure.step = 1 /\ humanReadable
     /\ ~Unresolved(pure.desc) /\ Len(HumanKey(pure.desc)) > MaxLabelLen)
        => /\ ~pure.ret.panic
           /\ IsRawKey(pure.ret.key, pure.desc)
           /\ ~IsPrefixOf(pure.ret.key, HumanKey(pure.desc))

\* the device 0001:7778 under the default prefix: its human-readable key is
\* 66 characters long
C12_Witness ==
    /\ pure.op = "genKey" /\ pure.step = 1 /\ humanReadable
    /\ pure.desc = [Vendor |-> 1, Product |-> 30584]
    /\ labelPrefix = DefaultPrefix
    /\ Len(HumanKey(pure.desc)) = MaxLabelLen + 3
    /\ pure.ret.key = sPrintLabelKey(<<"0", "0", "0", "1", "_", "7", "7", "7", "8">>)

\* C13: in human-readable mode, when both names are known and the key fits
\* in 63 characters, genKey returns
\* <prefix>/sanitize(vendor name)_sanitize(product name), where sanitize
\* replaces each character outside [A-Za-z0-9._-] by one "-" and keeps
\* the others.
C13_HumanKeySanitized ==
    (pure.op = "genKey" /\ pure.step = 1 /\ humanReadable
     /\ ~Unresolved(pure.desc) /\ Len(HumanKey(pure.desc)) <= MaxLabelLen)
        => /\ ~pure.ret.panic
           /\ pure.ret.key = HumanKey(pure.desc)

\* the key of the device 8086:0044 under the default prefix, as the test of
\* genKey expects it
C13_Witness ==
    /\ pure.op = "genKey" /\ pure.step = 1 /\ humanReadable
    /\ pure.desc = [Vendor |-> 32902, Product |-> 68]
    /\ pure.ret.key = <<"n", "u", "d", "l", ".", "s", "q", "u", "a", "t", ".", "a", "i", "/", "I", "n", "t", "e", "l", "-", "C", "o", "r", "p", ".", "_", "C", "P", "U", "-", "D", "R", "A", "M", "-", "C", "o", "n", "t", "r", "o", "l", "l", "e", "r">>

----------------------------------------------------------------------------
(* scanUSB applied to drawn devices and filters *)

\* the devices a scan finds: 8086:0044 and 0001:7778 (vendor and product
\* known), 8086:0200 and 0001:0044 (product unknown), fffe:0001 (vendor
\* unknown)
ScanDevices ==
    {[Vendor |-> 32902, Product |-> 68], [Vendor |-> 1, Product |-> 30584],
     [Vendor |-> 32902, Product |-> 512], [Vendor |-> 65534, Product |-> 1],
     [Vendor |-> 1, Product |-> 68]}

\* values of --no-contain
NoContainLists ==
    {<< >>, <<<<"i", "n", "t", "e", "l">>>>, <<<<"U", "N", "K", "N", "O", "W", "N">>>>,
     <<<<"h", "u", "b">>, <<"F", "r", "y">>>>}

\* values of --only
OnlyLists ==
    {<< >>, <<<<"8", "0", "8", "6", "_", "0", "0", "4", "4">>>>,
     <<<<"8", "0", "8", "6", "_", "0", "0", "4", "4">>, <<"1", "d", "6", "b", "_", "0", "0", "0", "2">>>>,
     <<<<"8", "0", "8", "6", ":", "0", "0", "4", "4">>>>}

\* values of --label-prefix: the default, and the longest drawn prefix
ScanPrefixes == {DefaultPrefix, Rep("a", MaxPrefixLen)}

\* Main rejects --only with --human-readable, so scanUSB never runs with both
InitScan ==
    /\ labelPrefix \in ScanPrefixes
    /\ humanReadable \in BOOLEAN
    /\ noContain \in NoContainLists
    /\ only \in OnlyLists
    /\ ~(Len(only) > 0 /\ humanReadable)
    /\ ProcInit("off")
    /\ nodeLabels = << >>
    /\ \E devs \in SUBSET ScanDevices, scanErr \in {"none", "list", "desc"} :
          pure = [op |-> "scanUSB", step |-> 0, devs |-> devs,
                  scanErr |-> scanErr,
                  ret |-> [panic |-> FALSE, err |-> FALSE, l |-> NilMap]]

\* nl, err := scanUSB(logger)
CallScanUSB ==
    /\ pure.op = "scanUSB" /\ pure.step = 0
    /\ pure' = [pure EXCEPT !.step = 1,
                             !.ret = scanUSB(pure.devs, pure.scanErr)]
    /\ UNCHANGED <<configVars, procVars>>

NextScan == CallScanUSB

SpecScan == InitScan /\ [][NextScan]_vars

\* whether the description of desc contains, case-insensitively, one of the
\* exclusion substrings
Dropped(desc) ==
    \E i \in DOMAIN noContain :
        Contains(ToLower(Describe(desc)), ToLower(noContain[i]))

\* scanUSB returned an inventory
Scanned ==
    /\ pure.op = "scanUSB" /\ pure.step = 1
    /\ ~pure.ret.panic /\ ~pure.ret.err

\* the key of a device in the configured mode, raw or human-readable
KeyOf(desc) ==
    IF humanReadable /\ ~Unresolved(desc) /\ Len(HumanKey(desc)) <= MaxLabelLen
    THEN HumanKey(desc)
    ELSE sPrintLabelKey(hexKey(desc))

\* C14 as claimed: a scanned device whose description contains an exclusion
\* substring has no entry in the inventory scanUSB returns, neither "true"
\* nor "false", whatever the exclusion and inclusion lists are.
C14_ExcludedHasNoEntry ==
    Scanned => \A d \in pure.devs :
                  Dropped(d) => KeyOf(d) \notin Keys(pure.ret.l)

\* C14 as amended: an excluded device adds no entry to the inventory: its
\* key is in the inventory only when a device that is not excluded has the
\* same key or when the inclusion list names the key, and then, no other
\* device having it, with the value "false".
C14_ExcludedAddsNoEntry ==
    Scanned =>
        \A d \in pure.devs :
            (Dropped(d) /\ KeyOf(d) \in Keys(pure.ret.l))
                => \/ \E e \in pure.devs : ~Dropped(e) /\ KeyOf(e) = KeyOf(d)
                   \/ /\ \E i \in DOMAIN only :
                             KeyOf(d) = labelPrefix \o <<"/">> \o only[i]
                      /\ pure.ret.l.kv[KeyOf(d)] = "false"

\* an attached device that is excluded and named by the inclusion list, next
\* to an attached device that is not excluded
C14_Witness ==
    /\ Scanned
    /\ \E d \in pure.devs :
          /\ Dropped(d) /\ KeyOf(d) \in Keys(pure.ret.l)
          /\ pure.ret.l.kv[KeyOf(d)] = "false"
    /\ \E d \in pure.devs : ~Dropped(d)

WellFormedKey(k) ==
    /\ HasPrefix(k, labelPrefix \o <<"/">>)
    /\ \A i \in (Len(labelPrefix) + 2)..Len(k) : k[i] \in AllowedChars

\* C21 as claimed: every key of every inventory scanUSB returns is the
\* prefix, one "/" and a token of characters in [A-Za-z0-9._-], and is at
\* most 63 characters long.
C21_KeysWellFormed ==
    Scanned => \A k \in Keys(pure.ret.l) :
                  WellFormedKey(k) /\ Len(k) <= MaxLabelLen

\* C21 as amended: without an inclusion list every key of the inventory is
\* the prefix, one "/" and a token of characters in [A-Za-z0-9._-], and it
\* is at most 63 characters long when the prefix is at most 53 characters
\* long; with an inclusion list every key is the prefix, one "/" and an
\* entry of the list as it was configured.
C21_KeysOfDevicesWellFormed ==
    Scanned =>
        \A k \in Keys(pure.ret.l) :
            IF Len(only) = 0
            THEN /\ WellFormedKey(k)
                 /\ Len(labelPrefix) <= MaxLabelLen - 10
                        => Len(k) <= MaxLabelLen
            ELSE \E i \in DOMAIN only : k = labelPrefix \o <<"/">> \o only[i]

\* human-readable mode under the default prefix: the key of 8086:0044 from
\* its names next to the raw key of 0001:7778, whose names give 66
\* characters
C21_Witness ==
    /\ Scanned /\ humanReadable /\ labelPrefix = DefaultPrefix
    /\ Keys(pure.ret.l)
          = {HumanKey([Vendor |-> 32902, Product |-> 68]),
             sPrintLabelKey(hexKey([Vendor |-> 1, Product |-> 30584]))}

----------------------------------------------------------------------------
(* Kernel-module labels (--label-mod).  The README documents the flag; the  *)
(* code that reads /proc/modules is not part of the sources at hand, so     *)
(* this part follows sections 4.1 and 4.2 of the specification.             *)

\* names of kernel modules as /proc/modules lists them
ModuleNames == {<<"w", "i", "r", "e", "g", "u", "a", "r", "d">>, <<"n", "f", "s">>, <<"n", "f", "_", "t", "a", "b", "l", "e", "s">>}

\* values of --label-mod
ModFilters == {<< >>, <<<<"w", "i", "r", "e", "g", "u", "a", "r", "d">>>>, <<<<"f", "a", "n", "t", "a", "s", "y">>>>, <<<<"w", "i", "r", "e", "g", "u", "a", "r", "d">>, <<"f", "a", "n", "t", "a", "s", "y">>>>, <<<<"n", "f">>>>}

\* whether the active module m matches the filter entry f: the whole name,
\* or a part of it, as configured
ModMatches(m, f, exact) == IF exact THEN m = f ELSE Contains(m, f)

\* the module entries, with the entries of no active module left out
scanModules_OmitMissing(filters, active, exact) ==
    LET found == {i \in DOMAIN filters :
                     \E m \in active : ModMatches(m, filters[i], exact)}
    IN  MakeMap([k \in {sPrintLabelKey(regTrim(filters[i])) : i \in found}
                    |-> "true"])

\* the module entries of the inventory: one per filter entry, "true" when an
\* active module matches it and "false" otherwise
scanModules(filters, active, exact) ==
    LET keyOf(i) == sPrintLabelKey(regTrim(filters[i]))
    IN  MakeMap([k \in {keyOf(i) : i \in DOMAIN filters} |->
            IF \E i \in DOMAIN filters :
                   /\ keyOf(i) = k
                   /\ \E m \in active : ModMatches(m, filters[i], exact)
            THEN "true" ELSE "false"])

\* the inventory of a cycle: the device entries and the module entries.  A
\* module source that cannot be read fails the cycle (section 7).
collect(devs, scanErr, filters, active, exact, modErr) ==
    LET usb == scanUSB(devs, scanErr)
        mod == scanModules(filters, active, exact)
    IN  IF usb.panic \/ usb.err THEN usb
        ELSE IF modErr THEN [panic |-> FALSE, err |-> TRUE, l |-> NilMap]
        ELSE [panic |-> FALSE, err |-> FALSE,
              l |-> MakeMap([k \in Keys(usb.l) \cup Keys(mod) |->
                       IF k \in Keys(mod) THEN mod.kv[k] ELSE usb.l.kv[k]])]

InitMod ==
    /\ labelPrefix = DefaultPrefix
    /\ humanReadable \in BOOLEAN
    /\ noContain = << >>
    /\ only = << >>
    /\ ProcInit("off")
    /\ nodeLabels = << >>
    /\ \E devs \in SUBSET {[Vendor |-> 32902, Product |-> 68],
                            [Vendor |-> 1, Product |-> 30584]},
          scanErr \in {"none", "list"},
          filters \in ModFilters, active \in SUBSET ModuleNames,
          exact \in BOOLEAN, modErr \in BOOLEAN :
          pure = [op |-> "collect", step |-> 0, devs |-> devs,
                  scanErr |-> scanErr, filters |-> filters,
                  active |-> active, exact |-> exact, modErr |-> modErr,
                  ret |-> [panic |-> FALSE, err |-> FALSE, l |-> NilMap]]

CallCollect ==
    /\ pure.op = "collect" /\ pure.step = 0
    /\ pure' = [pure EXCEPT !.step = 1,
                  !.ret = collect(pure.devs, pure.scanErr, pure.filters,
                                  pure.active, pure.exact, pure.modErr)]
    /\ UNCHANGED <<configVars, procVars>>

NextMod == CallCollect

SpecMod == InitMod /\ [][NextMod]_vars

----------------------------------------------------------------------------
(* The registry: the node's labels, and the patch protocol *)

\* the labels of the node getNode returns: a node without labels decodes
\* to a nil map
FetchedLabels == IF DOMAIN nodeLabels = {} THEN NilMap ELSE MakeMap(nodeLabels)

\* a patch that lists the changed and added entries but no deleted key
CreateTwoWayMergePatch_NoDeletes(old, new) ==
    IF Keys(new) = {}
    THEN IF Keys(old) = {} THEN NoPatch
         ELSE [kind |-> "null", set |-> << >>, del |-> {}]
    ELSE LET changed == {k \in Keys(new) :
                            k \notin Keys(old) \/ old.kv[k] # new.kv[k]}
         IN  IF changed = {} /\ Keys(old) \ Keys(new) = {}
             THEN NoPatch
             ELSE [kind |-> "merge",
                   set |-> [k \in changed |-> new.kv[k]],
                   del |-> {}]

\* strategicpatch.CreateTwoWayMergePatch(oldData, newData, v1.Node{}) for two
\* nodes that differ in their labels only.  An empty label map is left out
\* of the JSON (omitempty): when only newData lacks the field the patch sets
\* it to null; otherwise the patch lists the changed and added entries and
\* the deleted keys.
CreateTwoWayMergePatch(old, new) ==
    IF Keys(new) = {}
    THEN IF Keys(old) = {} THEN NoPatch
         ELSE [kind |-> "null", set |-> << >>, del |-> {}]
    ELSE LET changed == {k \in Keys(new) :
                            k \notin Keys(old) \/ old.kv[k] # new.kv[k]}
         IN  IF changed = {} /\ Keys(old) \ Keys(new) = {}
             THEN NoPatch
             ELSE [kind |-> "merge",
                   set |-> [k \in changed |-> new.kv[k]],
                   del |-> Keys(old) \ Keys(new)]

\* the labels of the node once the API server applied patch to labels
ApplyPatch(labels, patch) ==
    IF patch.kind = "null" THEN << >>
    ELSE IF patch.kind = "empty" THEN labels
    ELSE [k \in ((DOMAIN labels) \ patch.del) \cup DOMAIN patch.set |->
             IF k \in DOMAIN patch.set THEN patch.set[k] ELSE labels[k]]

\* the keys other actors write: a label of another owner, a label under
\* <prefix>/, and a label whose DNS prefix starts with *labelPrefix
ActorKeys ==
    {<<"k", "8", "s", ".", "i", "o", "/", "h", "o", "s", "t">>, sPrintLabelKey(<<"8", "0", "8", "6", "_", "0", "0", "4", "4">>), labelPrefix \o <<".", "x", "/", "y">>}

\* another actor sets or removes a label of the node
OtherActorWrites ==
    /\ mainPc # "off"
    /\ writes < MaxWrites
    /\ writes' = writes + 1
    /\ \E k \in ActorKeys :
          \/ /\ \E v \in IF UnderPrefix(k) THEN {"false"} ELSE LabelValues :
                   nodeLabels' =
                       [x \in DOMAIN nodeLabels \cup {k} |->
                           IF x = k THEN v ELSE nodeLabels[x]]
             /\ hist' = [hist EXCEPT
                   !.dirty = @ \/ (clean.fetched /\ UnderPrefix(k))]
          \/ /\ k \in DOMAIN nodeLabels
             /\ nodeLabels' = [x \in DOMAIN nodeLabels \ {k} |-> nodeLabels[x]]
             /\ hist' = hist
    /\ UNCHANGED <<configVars, mainPc, mutex, ch, ctxCancelled, cycles,
                   started, ticks, exitStatus, msrvClosed,
                   reconcilingCounter, clean, pure>>

----------------------------------------------------------------------------
(* scanAndLabel applied twice, with the same inventory, to a drawn node    *)
(* that nobody else writes to                                              *)

InitReconcile ==
    /\ labelPrefix = DefaultPrefix
    /\ humanReadable = FALSE
    /\ noContain = << >>
    /\ only = << >>
    /\ ProcInit("off")
    /\ \E l \in MapsOver(ManagedKeys \cup ForeignKeys, LabelValues),
          ul \in MapsOver(ManagedKeys, LabelValues) :
          /\ nodeLabels = l.kv
          /\ pure = [op |-> "scanAndLabel", step |-> 0, ul |-> ul,
                     first |-> l.kv, prev |-> l.kv, patch |-> NoPatch,
                     panic |-> FALSE]

\* scanAndLabel when getNode, scanUSB and Patch return no error and scanUSB
\* returns the inventory pure.ul: the node is fetched, merged with the
\* inventory, and the patch from the fetched to the merged node is applied
\* to the labels of the node, unless merge panics
scanAndLabel ==
    /\ pure.op = "scanAndLabel" /\ pure.step < 2 /\ ~pure.panic
    /\ LET node == FetchedLabels
           m == merge(node, pure.ul)
           patch == CreateTwoWayMergePatch(node, m.l)
       IN  IF m.panic
           THEN /\ pure' = [pure EXCEPT !.panic = TRUE]
                /\ nodeLabels' = nodeLabels
           ELSE /\ pure' = [pure EXCEPT !.step = @ + 1, !.prev = nodeLabels,
                                        !.patch = patch]
                /\ nodeLabels' = ApplyPatch(nodeLabels, patch)
    /\ UNCHANGED <<configVars, mainPc, mutex, ch, ctxCancelled, cycles,
                   started, ticks, exitStatus, msrvClosed,
                   reconcilingCounter, clean, writes, hist>>

NextReconcile == scanAndLabel

SpecReconcile == InitReconcile /\ [][NextReconcile]_vars

\* the labels of the node under <prefix>/
ManagedLabels ==
    [k \in {x \in DOMAIN nodeLabels : UnderPrefix(x)} |-> nodeLabels[k]]

\* C31: reconciliation converges and is stable: after a cycle that succeeds
\* with no other writer the labels of the node under <prefix>/ are the
\* inventory of the cycle, key by key and value by value; the next
\* successful cycle with the same inventory computes the empty patch and
\* leaves the labels of the node as they were.
C31_ConvergesAndIsStable ==
    (pure.op = "scanAndLabel" /\ ~pure.panic)
        => /\ pure.step >= 1 => ManagedLabels = pure.ul.kv
           /\ pure.step = 2
                 => /\ pure.patch = NoPatch
                    /\ nodeLabels = pure.prev

\* two cycles on a node that had a stale managed key, lacked a key of the
\* inventory and has a label of another owner: the first cycle changed the
\* labels, the second did not
C31_Witness ==
    /\ pure.op = "scanAndLabel" /\ pure.step = 2 /\ ~pure.panic
    /\ \E k \in DOMAIN pure.first : UnderPrefix(k) /\ k \notin Keys(pure.ul)
    /\ \E k \in Keys(pure.ul) : k \notin DOMAIN pure.first
    /\ \E k \in DOMAIN nodeLabels : ~UnderPrefix(k)
    /\ pure.first # nodeLabels /\ pure.prev = nodeLabels

----------------------------------------------------------------------------
(* The cycle goroutines: go func() { defer mutex.Unlock(); scanAndLabel }  *)

Running == exitStatus = -1

InFlight(c) == cycles[c].pc \in {"getNode", "scanUSB", "patch", "return"}

\* the devices a scan can find attached: one of a known vendor and product,
\* one of an unknown vendor
Attachable ==
    {[Vendor |-> 32902, Product |-> 68], [Vendor |-> 65534, Product |-> 1]}

\* a panic of a goroutine ends the process with status 2
Panic(c) ==
    /\ cycles' = [cycles EXCEPT ![c].pc = "panicked"]
    /\ exitStatus' = 2
    /\ mainPc' = "exited"

\* scanAndLabel calling getNode again after a failed getNode
CycleGetNode_Retry(c) ==
    /\ Running /\ cycles[c].pc = "getNode"
    /\ \/ /\ ~ctxCancelled
          /\ cycles' = [cycles EXCEPT ![c].pc = "scanUSB",
                                      ![c].node = FetchedLabels]
       \/ /\ ~cycles[c].err
          /\ cycles' = [cycles EXCEPT ![c].err = TRUE]
       \/ /\ cycles[c].err
          /\ cycles' = [cycles EXCEPT ![c].pc = "return"]
    /\ UNCHANGED <<configVars, mainPc, mutex, ch, ctxCancelled, started,
                   ticks, exitStatus, msrvClosed, reconcilingCounter, clean,
                   nodeLabels, writes, hist, pure>>

\* scanAndLabel: getNode and json.Marshal(node)
CycleGetNode(c) ==
    /\ Running /\ cycles[c].pc = "getNode"
    /\ \/ /\ ~ctxCancelled
          /\ cycles' = [cycles EXCEPT ![c].pc = "scanUSB",
                                      ![c].node = FetchedLabels]
       \/ \* node not found, no answer, or the context is cancelled
          cycles' = [cycles EXCEPT ![c].pc = "return", ![c].err = TRUE]
    /\ UNCHANGED <<configVars, mainPc, mutex, ch, ctxCancelled, started,
                   ticks, exitStatus, msrvClosed, reconcilingCounter, clean,
                   nodeLabels, writes, hist, pure>>

\* scanAndLabel going on to merge and patch with the nil inventory of a
\* failed scan
CycleScanMerge_PatchOnError(c) ==
    /\ Running /\ cycles[c].pc = "scanUSB"
    /\ \E devs \in SUBSET Attachable, scanErr \in {"none", "list", "desc"} :
          LET s == scanUSB(devs, scanErr)
              m == merge(cycles[c].node, s.l)
          IN  IF s.panic \/ (~s.err /\ m.panic)
              THEN /\ Panic(c)
                   /\ UNCHANGED <<mutex, ch, ctxCancelled, started, ticks,
                                  msrvClosed, reconcilingCounter, clean,
                                  nodeLabels, writes, hist>>
              ELSE /\ cycles' =
                         [cycles EXCEPT
                             ![c].pc = "patch",
                             ![c].err = s.err,
                             ![c].nl = s.l,
                             ![c].patch = CreateTwoWayMergePatch(
                                              cycles[c].node, m.l)]
                   /\ UNCHANGED <<mainPc, mutex, ch, ctxCancelled, started,
                                  ticks, exitStatus, msrvClosed,
                                  reconcilingCounter, clean, nodeLabels,
                                  writes, hist>>
    /\ UNCHANGED <<configVars, pure>>

\* scanAndLabel: scanUSB, merge and CreateTwoWayMergePatch
CycleScanMerge(c) ==
    /\ Running /\ cycles[c].pc = "scanUSB"
    /\ \E devs \in SUBSET Attachable, scanErr \in {"none", "list", "desc"} :
          LET s == scanUSB(devs, scanErr)
              m == merge(cycles[c].node, s.l)
          IN  IF s.panic \/ (~s.err /\ m.panic)
              THEN /\ Panic(c)
                   /\ UNCHANGED <<mutex, ch, ctxCancelled, started, ticks,
                                  msrvClosed, reconcilingCounter, clean,
                                  nodeLabels, writes, hist>>
              ELSE /\ cycles' =
                         IF s.err
                         THEN [cycles EXCEPT ![c].pc = "return",
                                             ![c].err = TRUE]
                         ELSE [cycles EXCEPT
                                  ![c].pc = "patch",
                                  ![c].nl = s.l,
                                  ![c].patch = CreateTwoWayMergePatch(
                                                   cycles[c].node, m.l)]
                   /\ UNCHANGED <<mainPc, mutex, ch, ctxCancelled, started,
                                  ticks, exitStatus, msrvClosed,
                                  reconcilingCounter, clean, nodeLabels,
                                  writes, hist>>
    /\ UNCHANGED <<configVars, pure>>

\* scanAndLabel patching with context.Background()
CyclePatch_Background(c) ==
    /\ Running /\ cycles[c].pc = "patch"
    /\ \/ /\ nodeLabels' = ApplyPatch(nodeLabels, cycles[c].patch)
          /\ \E lost \in BOOLEAN :
                cycles' = [cycles EXCEPT ![c].pc = "return", ![c].err = lost,
                                         ![c].sent = TRUE]
       \/ /\ nodeLabels' = nodeLabels
          /\ cycles' = [cycles EXCEPT ![c].pc = "return", ![c].err = TRUE]
    /\ UNCHANGED <<configVars, mainPc, mutex, ch, ctxCancelled, started,
                   ticks, exitStatus, msrvClosed, reconcilingCounter, clean,
                   writes, hist, pure>>

\* Nodes().Patch sent with the resourceVersion of the fetched node as a
\* precondition: the registry answers Conflict when the labels changed since
\* the fetch
CyclePatch_Conditional(c) ==
    /\ Running /\ cycles[c].pc = "patch"
    /\ \/ /\ ~ctxCancelled
          /\ IF FetchedLabels = cycles[c].node
             THEN /\ nodeLabels' = ApplyPatch(nodeLabels, cycles[c].patch)
                  /\ \E lost \in BOOLEAN :
                        cycles' = [cycles EXCEPT ![c].pc = "return",
                                                 ![c].err = lost,
                                                 ![c].sent = TRUE]
             ELSE /\ nodeLabels' = nodeLabels
                  /\ cycles' = [cycles EXCEPT ![c].pc = "return",
                                              ![c].err = TRUE,
                                              ![c].sent = TRUE]
       \/ /\ nodeLabels' = nodeLabels
          /\ cycles' = [cycles EXCEPT ![c].pc = "return", ![c].err = TRUE]
    /\ UNCHANGED <<configVars, mainPc, mutex, ch, ctxCancelled, started,
                   ticks, exitStatus, msrvClosed, reconcilingCounter, clean,
                   writes, hist, pure>>

\* scanAndLabel: Nodes().Patch.  The patch is applied and answered, not
\* applied (not found, no connection, context cancelled), or applied with
\* the answer lost.  The patch holds the label differences only, no
\* resourceVersion: the registry applies it to the labels the node has
\* when the request arrives.
CyclePatch(c) ==
    /\ Running /\ cycles[c].pc = "patch"
    /\ \/ /\ ~ctxCancelled
          /\ nodeLabels' = ApplyPatch(nodeLabels, cycles[c].patch)
          /\ \E lost \in BOOLEAN :
                cycles' = [cycles EXCEPT ![c].pc = "return", ![c].err = lost,
                                         ![c].sent = TRUE]
       \/ /\ nodeLabels' = nodeLabels
          /\ cycles' = [cycles EXCEPT ![c].pc = "return", ![c].err = TRUE]
    /\ UNCHANGED <<configVars, mainPc, mutex, ch, ctxCancelled, started,
                   ticks, exitStatus, msrvClosed, reconcilingCounter, clean,
                   writes, hist, pure>>

\* the goroutine without its deferred mutex.Unlock()
CycleReturn_NoUnlock(c) ==
    /\ Running /\ cycles[c].pc = "return"
    /\ reconcilingCounter' =
          IF cycles[c].err
          THEN [reconcilingCounter EXCEPT !.false = @ + 1]
          ELSE [reconcilingCounter EXCEPT !.true = @ + 1]
    /\ cycles' = [cycles EXCEPT ![c] =
                     [NoCycle EXCEPT !.pc = "done", !.err = cycles[c].err,
                                     !.contended = cycles[c].contended]]
    /\ UNCHANGED <<configVars, mainPc, mutex, ch, ctxCancelled, started,
                   ticks, exitStatus, msrvClosed, clean, nodeLabels, writes,
                   hist, pure>>

\* the goroutine counting success="true" without the else
CycleReturn_CountBoth(c) ==
    /\ Running /\ cycles[c].pc = "return"
    /\ reconcilingCounter' =
          IF cycles[c].err
          THEN [reconcilingCounter EXCEPT !.false = @ + 1, !.true = @ + 1]
          ELSE [reconcilingCounter EXCEPT !.true = @ + 1]
    /\ mutex' = FALSE
    /\ cycles' = [cycles EXCEPT ![c] =
                     [NoCycle EXCEPT !.pc = "done", !.err = cycles[c].err,
                                     !.contended = cycles[c].contended]]
    /\ UNCHANGED <<configVars, mainPc, ch, ctxCancelled, started, ticks,
                   exitStatus, msrvClosed, clean, nodeLabels, writes, hist,
                   pure>>

\* the goroutine counts the outcome and, deferred, unlocks the mutex
CycleReturn(c) ==
    /\ Running /\ cycles[c].pc = "return"
    /\ reconcilingCounter' =
          IF cycles[c].err
          THEN [reconcilingCounter EXCEPT !.false = @ + 1]
          ELSE [reconcilingCounter EXCEPT !.true = @ + 1]
    /\ mutex' = FALSE
    /\ cycles' = [cycles EXCEPT ![c] =
                     [NoCycle EXCEPT !.pc = "done", !.err = cycles[c].err,
                                     !.contended = cycles[c].contended]]
    /\ UNCHANGED <<configVars, mainPc, ch, ctxCancelled, started, ticks,
                   exitStatus, msrvClosed, clean, nodeLabels, writes, hist,
                   pure>>

----------------------------------------------------------------------------
(* Main: startup, the select loop and the shutdown handler *)

ExitError == 1      \* main: os.Exit(1) when Main returns an error
ExitPanic == 2      \* the Go runtime's exit status of a panic
ExitSignal == 130   \* Main: os.Exit(130) at the end of the handler

\* Main without the test of --only with --human-readable
Startup_NoExclusiveCheck ==
    /\ mainPc = "start"
    /\ \E failure \in {"none", "loglevel", "kubeconfig", "clientset"} :
          IF failure = "loglevel"
          THEN /\ mainPc' = "exited"
               /\ exitStatus' = ExitError
               /\ UNCHANGED ctxCancelled
          ELSE IF failure = "kubeconfig"
          THEN /\ mainPc' = "exited"
               /\ exitStatus' = ExitError
               /\ ctxCancelled' = TRUE
          ELSE IF failure = "clientset"
          THEN /\ mainPc' = "exited"
               /\ exitStatus' = ExitPanic
               /\ ctxCancelled' = TRUE
          ELSE /\ mainPc' = "select"
               /\ UNCHANGED <<exitStatus, ctxCancelled>>
    /\ UNCHANGED <<configVars, mutex, ch, cycles, started, ticks, msrvClosed,
                   reconcilingCounter, clean, nodeLabels, writes, hist, pure>>

\* Main up to signal.Notify.  It returns an error for an unknown log level,
\* for --only with --human-readable and for a kubeconfig that cannot be
\* built, and panics when the clientset cannot be created.
Startup ==
    /\ mainPc = "start"
    /\ \E failure \in {"none", "loglevel", "kubeconfig", "clientset"} :
          IF failure = "loglevel"
             \/ (Len(only) > 0 /\ humanReadable)
          THEN /\ mainPc' = "exited"
               /\ exitStatus' = ExitError
               /\ UNCHANGED ctxCancelled
          ELSE IF failure = "kubeconfig"
          THEN \* the deferred cancel() runs as Main returns
               /\ mainPc' = "exited"
               /\ exitStatus' = ExitError
               /\ ctxCancelled' = TRUE
          ELSE IF failure = "clientset"
          THEN /\ mainPc' = "exited"
               /\ exitStatus' = ExitPanic
               /\ ctxCancelled' = TRUE
          ELSE /\ mainPc' = "select"
               /\ UNCHANGED <<exitStatus, ctxCancelled>>
    /\ UNCHANGED <<configVars, mutex, ch, cycles, started, ticks, msrvClosed,
                   reconcilingCounter, clean, nodeLabels, writes, hist, pure>>

\* the operating system delivers SIGINT, SIGTERM or SIGQUIT: signal.Notify
\* puts it into ch unless ch is full.  The handler never reads ch again, so
\* the signals that arrive after it took one are left out.
SignalArrives ==
    /\ Running /\ mainPc \notin {"off", "start"}
    /\ ~hist.taken
    /\ ch' = 1
    /\ hist' = [hist EXCEPT !.signalled = TRUE]
    /\ UNCHANGED <<configVars, mainPc, mutex, ctxCancelled, cycles, started,
                   ticks, exitStatus, msrvClosed, reconcilingCounter, clean,
                   nodeLabels, writes, pure>>

\* case <-time.After(*updateTime): the control loop goes on to mutex.Lock()
TimerFires ==
    /\ Running /\ mainPc = "select"
    /\ ticks < MaxTicks
    /\ ticks' = ticks + 1
    /\ mainPc' = "tickLock"
    /\ hist' = [hist EXCEPT !.contended = mutex]
    /\ UNCHANGED <<configVars, mutex, ch, ctxCancelled, cycles, started,
                   exitStatus, msrvClosed, reconcilingCounter, clean,
                   nodeLabels, writes, pure>>

\* the timer case with sync.Mutex.TryLock in place of Lock: the tick is
\* dropped when the mutex is locked
TickLock_TryLock ==
    /\ Running /\ mainPc = "tickLock"
    /\ mainPc' = "select"
    /\ IF mutex
       THEN UNCHANGED <<mutex, started, cycles, hist>>
       ELSE /\ mutex' = TRUE
            /\ started' = started + 1
            /\ cycles' = [cycles EXCEPT ![started + 1] =
                             [NoCycle EXCEPT !.pc = "getNode"]]
            /\ hist' = [hist EXCEPT
                  !.startedAfterSignal = @ \/ hist.signalled]
    /\ UNCHANGED <<configVars, ch, ctxCancelled, ticks, exitStatus,
                   msrvClosed, reconcilingCounter, clean, nodeLabels, writes,
                   pure>>

\* the timer case without the mutex
TickLock_NoMutex ==
    /\ Running /\ mainPc = "tickLock"
    /\ started' = started + 1
    /\ cycles' = [cycles EXCEPT ![started + 1] =
                     [NoCycle EXCEPT !.pc = "getNode",
                                     !.contended = hist.contended]]
    /\ mainPc' = "select"
    /\ hist' = [hist EXCEPT !.startedAfterSignal = @ \/ hist.signalled]
    /\ UNCHANGED <<configVars, mutex, ch, ctxCancelled, ticks, exitStatus,
                   msrvClosed, reconcilingCounter, clean, nodeLabels, writes,
                   pure>>

\* the cycles started by a ticker goroutine of their own, whatever the
\* control loop does
TickLock_OwnGoroutine ==
    /\ Running /\ mainPc \in {"tickLock", "sigLock"}
    /\ ~mutex
    /\ started < MaxTicks
    /\ mutex' = TRUE
    /\ started' = started + 1
    /\ cycles' = [cycles EXCEPT ![started + 1] =
                     [NoCycle EXCEPT !.pc = "getNode",
                                     !.contended = hist.contended]]
    /\ mainPc' = IF mainPc = "tickLock" THEN "select" ELSE mainPc
    /\ hist' = [hist EXCEPT !.startedAfterSignal = @ \/ hist.signalled]
    /\ UNCHANGED <<configVars, ch, ctxCancelled, ticks, exitStatus,
                   msrvClosed, reconcilingCounter, clean, nodeLabels, writes,
                   pure>>

\* the timer case: mutex.Lock() returns and the cycle goroutine is started
TickLock ==
    /\ Running /\ mainPc = "tickLock"
    /\ ~mutex
    /\ mutex' = TRUE
    /\ started' = started + 1
    /\ cycles' = [cycles EXCEPT ![started + 1] =
                     [NoCycle EXCEPT !.pc = "getNode",
                                     !.contended = hist.contended]]
    /\ mainPc' = "select"
    /\ hist' = [hist EXCEPT !.startedAfterSignal = @ \/ hist.signalled]
    /\ UNCHANGED <<configVars, ch, ctxCancelled, ticks, exitStatus,
                   msrvClosed, reconcilingCounter, clean, nodeLabels, writes,
                   pure>>

\* case s := <-ch: the handler logs the signal and cancels the context
SigReceive ==
    /\ Running /\ mainPc = "select"
    /\ ch = 1
    /\ ch' = 0
    /\ ctxCancelled' = TRUE
    /\ mainPc' = "sigLock"
    /\ hist' = [hist EXCEPT !.taken = TRUE, !.drained = mutex,
                            !.log = Append(@, "cancel")]
    /\ UNCHANGED <<configVars, mutex, cycles, started, ticks, exitStatus,
                   msrvClosed, reconcilingCounter, clean, nodeLabels, writes,
                   pure>>

\* the handler going on to cleanUp without mutex.Lock()
SigLock_NoWait ==
    /\ Running /\ mainPc = "sigLock"
    /\ mainPc' = "cleanUp"
    /\ hist' = [hist EXCEPT !.log = Append(@, "lock")]
    /\ UNCHANGED <<configVars, mutex, ch, ctxCancelled, cycles, started,
                   ticks, exitStatus, msrvClosed, reconcilingCounter, clean,
                   nodeLabels, writes, pure>>

\* the handler: mutex.Lock() returns
SigLock ==
    /\ Running /\ mainPc = "sigLock"
    /\ ~mutex
    /\ mutex' = TRUE
    /\ mainPc' = "cleanUp"
    /\ hist' = [hist EXCEPT !.log = Append(@, "lock")]
    /\ UNCHANGED <<configVars, ch, ctxCancelled, cycles, started, ticks,
                   exitStatus, msrvClosed, reconcilingCounter, clean,
                   nodeLabels, writes, pure>>

\* cleanUp calling getNode with the context of the cycles
CleanGetNode_WithCtx ==
    /\ Running /\ mainPc = "cleanUp"
    /\ \/ /\ ~ctxCancelled
          /\ clean' = [clean EXCEPT !.node = FetchedLabels, !.fetched = TRUE]
          /\ mainPc' = "cleanPatch"
       \/ /\ clean' = clean
          /\ mainPc' = "msrvClose"
    /\ hist' = [hist EXCEPT !.log = Append(@, "cleanUp")]
    /\ UNCHANGED <<configVars, mutex, ch, ctxCancelled, cycles, started,
                   ticks, exitStatus, msrvClosed, reconcilingCounter,
                   nodeLabels, writes, pure>>

\* cleanUp: getNode with context.Background() and json.Marshal(node)
CleanGetNode ==
    /\ Running /\ mainPc = "cleanUp"
    /\ \/ /\ clean' = [clean EXCEPT !.node = FetchedLabels, !.fetched = TRUE]
          /\ mainPc' = "cleanPatch"
       \/ \* node not found or no answer: cleanUp returns the error
          /\ clean' = clean
          /\ mainPc' = "msrvClose"
    /\ hist' = [hist EXCEPT !.log = Append(@, "cleanUp")]
    /\ UNCHANGED <<configVars, mutex, ch, ctxCancelled, cycles, started,
                   ticks, exitStatus, msrvClosed, reconcilingCounter,
                   nodeLabels, writes, pure>>

\* cleanUp with the arguments of strings.HasPrefix swapped
cleanLabels_SwappedArgs(l) ==
    Delete(l, {k \in Keys(l) : HasPrefix(labelPrefix, k)})

\* cleanUp deleting the keys under <prefix>/ only
cleanLabels_WithSlash(l) ==
    Delete(l, {k \in Keys(l) : HasPrefix(k, labelPrefix \o <<"/">>)})

\* cleanUp: the labels of node once every key that starts with *labelPrefix
\* is deleted
cleanLabels(l) == Delete(l, {k \in Keys(l) : HasPrefix(k, labelPrefix)})

(* cleanUp's delete loop and merge with the empty inventory applied to the *)
(* same drawn label map                                                    *)

InitClean ==
    /\ labelPrefix = DefaultPrefix
    /\ humanReadable = FALSE
    /\ noContain = << >>
    /\ only = << >>
    /\ ProcInit("off")
    /\ nodeLabels = << >>
    /\ \E l \in MapsOver(ManagedKeys \cup ForeignKeys, LabelValues) \cup {NilMap} :
          pure = [op |-> "clean", step |-> 0, l |-> l,
                  cleaned |-> NilMap,
                  merged |-> [panic |-> FALSE, l |-> NilMap]]

\* the delete loop of cleanUp on l, and merge(l, map[string]string{})
CleanAndMerge ==
    /\ pure.op = "clean" /\ pure.step = 0
    /\ pure' = [pure EXCEPT !.step = 1,
                  !.cleaned = cleanLabels(pure.l),
                  !.merged = merge(pure.l, MakeMap(<< >>))]
    /\ UNCHANGED <<configVars, procVars>>

NextClean == CleanAndMerge

SpecClean == InitClean /\ [][NextClean]_vars

\* C27: cleanup is a merge with the empty inventory: for every label map l
\* of the fetched node (nil included) merge(l, {}) does not panic and
\* returns the map cleanUp's delete loop leaves, so the two agree on the
\* keys they remove.
C27_CleanUpIsMergeWithEmpty ==
    (pure.op = "clean" /\ pure.step = 1)
        => /\ ~pure.merged.panic
           /\ pure.merged.l = pure.cleaned
           /\ Keys(pure.l) \ Keys(pure.cleaned)
                 = {k \in Keys(pure.l) : HasPrefix(k, labelPrefix)}

\* a node with a managed key, a foreign key and a key of another owner that
\* starts with the characters of the prefix, cleaned
C27_Witness ==
    /\ pure.op = "clean" /\ pure.step = 1
    /\ Keys(pure.l) = {sPrintLabelKey(Tokens[1]),
                       <<"k", "8", "s", ".", "i", "o", "/", "h", "o", "s", "t">>,
                       labelPrefix \o <<".", "x", "/", "y">>}
    /\ Keys(pure.cleaned) = {<<"k", "8", "s", ".", "i", "o", "/", "h", "o", "s", "t">>}

\* cleanUp: CreateTwoWayMergePatch and Nodes().Patch
CleanPatch ==
    /\ Running /\ mainPc = "cleanPatch"
    /\ LET patch == CreateTwoWayMergePatch(clean.node, cleanLabels(clean.node))
       IN  \/ /\ nodeLabels' = ApplyPatch(nodeLabels, patch)
              /\ clean' = [clean EXCEPT !.applied = TRUE]
           \/ UNCHANGED <<nodeLabels, clean>>
    /\ mainPc' = "msrvClose"
    /\ UNCHANGED <<configVars, mutex, ch, ctxCancelled, cycles, started,
                   ticks, exitStatus, msrvClosed, reconcilingCounter, writes,
                   hist, pure>>

\* msrv.Close(), whose error is logged
MsrvClose ==
    /\ Running /\ mainPc = "msrvClose"
    /\ msrvClosed' = TRUE
    /\ mainPc' = "exit"
    /\ hist' = [hist EXCEPT !.log = Append(@, "msrvClose")]
    /\ UNCHANGED <<configVars, mutex, ch, ctxCancelled, cycles, started,
                   ticks, exitStatus, reconcilingCounter, clean, nodeLabels,
                   writes, pure>>

\* os.Exit(130)
Exit ==
    /\ Running /\ mainPc = "exit"
    /\ exitStatus' = ExitSignal
    /\ mainPc' = "exited"
    /\ hist' = [hist EXCEPT !.log = Append(@, "exit")]
    /\ UNCHANGED <<configVars, mutex, ch, ctxCancelled, cycles, started,
                   ticks, msrvClosed, reconcilingCounter, clean, nodeLabels,
                   writes, pure>>

----------------------------------------------------------------------------
(* The process *)

Init ==
    /\ labelPrefix = DefaultPrefix
    /\ humanReadable \in BOOLEAN
    /\ noContain = << >>
    /\ only \in {<< >>, <<<<"8", "0", "8", "6", "_", "0", "0", "4", "4">>>>}
    /\ ProcInit("start")
    /\ nodeLabels \in {<< >>, (<<"k", "8", "s", ".", "i", "o", "/", "h", "o", "s", "t">> :> "true"),
                       (sPrintLabelKey(Tokens[1]) :> "true")}
    /\ pure = [op |-> "none"]

Next ==
    \/ Startup
    \/ SignalArrives
    \/ TimerFires
    \/ TickLock
    \/ SigReceive
    \/ SigLock
    \/ CleanGetNode
    \/ CleanPatch
    \/ MsrvClose
    \/ Exit
    \/ \E c \in 1..MaxTicks : CycleGetNode(c)
    \/ \E c \in 1..MaxTicks : CycleScanMerge(c)
    \/ \E c \in 1..MaxTicks : CyclePatch(c)
    \/ \E c \in 1..MaxTicks : CycleReturn(c)
    \/ OtherActorWrites

Spec == Init /\ [][Next]_vars

\* The Go scheduler runs every goroutine that can run: the control loop
\* goes on when mutex.Lock() can return and takes a signal that waits in ch
\* when it is at the select (time.After starts anew at each select, so the
\* signal case is ready first); the calls of cleanUp, msrv.Close() and
\* os.Exit return; the steps of a cycle goroutine are taken.  Nothing is
\* assumed of the timer and the signals.
Fairness ==
    /\ WF_vars(TickLock)
    /\ WF_vars(SigReceive)
    /\ WF_vars(SigLock)
    /\ WF_vars(CleanGetNode)
    /\ WF_vars(CleanPatch)
    /\ WF_vars(MsrvClose)
    /\ WF_vars(Exit)
    /\ \A c \in 1..MaxTicks :
          /\ WF_vars(CycleGetNode(c))
          /\ WF_vars(CycleScanMerge(c))
          /\ WF_vars(CyclePatch(c))
          /\ WF_vars(CycleReturn(c))

\* The nodes termination is checked on.  No step of the process waits for a
\* label: the labels decide only whether merge panics, that is whether the
\* node has a label map at all, which the node without labels and the node
\* with one label decide.
InitFair ==
    /\ Init
    /\ nodeLabels \in {<< >>, (<<"k", "8", "s", ".", "i", "o", "/", "h", "o", "s", "t">> :> "true")}

\* The steps of the process itself; for the same reason the writes of other
\* actors are left out where termination is checked.
NextFair ==
    \/ Startup
    \/ SignalArrives
    \/ TimerFires
    \/ TickLock
    \/ SigReceive
    \/ SigLock
    \/ CleanGetNode
    \/ CleanPatch
    \/ MsrvClose
    \/ Exit
    \/ \E c \in 1..MaxTicks : CycleGetNode(c)
    \/ \E c \in 1..MaxTicks : CycleScanMerge(c)
    \/ \E c \in 1..MaxTicks : CyclePatch(c)
    \/ \E c \in 1..MaxTicks : CycleReturn(c)

SpecFair == InitFair /\ [][NextFair]_vars /\ Fairness

----------------------------------------------------------------------------
(* Properties of the scheduler *)

InFlightCycles == {c \in 1..MaxTicks : InFlight(c)}

\* C1: single-flight: in every reachable state at most one scanAndLabel
\* cycle is in flight.
C1_SingleFlight == Cardinality(InFlightCycles) <= 1

\* a cycle in flight while the control loop waits for the mutex on the next
\* tick and a signal sits in ch
C1_Witness ==
    /\ InFlightCycles # {}
    /\ mainPc = "tickLock" /\ mutex /\ ch = 1

CleanUpStarted ==
    mainPc \in {"cleanUp", "cleanPatch", "msrvClose", "exit"}
    \/ exitStatus = ExitSignal

\* C3: cleanup never races a cycle: from the start of cleanUp on, no cycle
\* is in flight, so none fetches or patches the node during or after
\* cleanUp.
C3_CleanUpAfterCycles == CleanUpStarted => InFlightCycles = {}

\* cleanUp about to patch, after the handler waited for a cycle that was in
\* flight when the signal was taken
C3_Witness ==
    /\ mainPc = "cleanPatch" /\ hist.drained
    /\ \E c \in 1..MaxTicks : cycles[c].pc = "done"

ManagedOnNode == {k \in DOMAIN nodeLabels : UnderPrefix(k)}

\* C4 as claimed: after the handler exited the process, the node holds no
\* key under <prefix>/, whatever happened to the fetch and the patch of
\* cleanUp and whatever other actors did.
C4_NoManagedKeyAfterExit == exitStatus = ExitSignal => ManagedOnNode = {}

\* C4 as amended: after the handler exited the process, the node holds no
\* key under <prefix>/ when the registry applied the patch of cleanUp and no
\* other actor set a key under <prefix>/ after cleanUp fetched the node.
C4_NoManagedKeyAfterCleanUp ==
    (exitStatus = ExitSignal /\ clean.applied /\ ~hist.dirty)
        => ManagedOnNode = {}

\* the process exited after a cleanUp that removed a key under <prefix>/
\* and left a label of another owner
C4_Witness ==
    /\ exitStatus = ExitSignal /\ clean.applied /\ ~hist.dirty
    /\ \E k \in Keys(clean.node) : UnderPrefix(k)
    /\ DOMAIN nodeLabels # {}

\* C5 as claimed: no cycle starts once a termination signal was delivered
\* to the process.
C5_NoStartAfterSignal == ~hist.startedAfterSignal

\* C5 as amended: no cycle starts once the control loop has received the
\* signal from ch.
C5_NoStartAfterTaken == [][hist.taken => started' = started]_vars

\* the signal taken while a cycle was in flight, with ticks of the run left
C5_Witness ==
    /\ hist.taken /\ hist.drained
    /\ started >= 1 /\ ticks < MaxTicks

ShutdownSteps == <<"cancel", "lock", "cleanUp", "msrvClose", "exit">>

\* C6: the handler cancels, waits for the cycle, cleans up, stops the
\* metrics server and exits, in this order; once the control loop has taken
\* the signal the process exits with status 130 only; a failed startup
\* exits with a status that is neither 0 nor 130.
C6_ShutdownOrderAndStatus ==
    /\ IsPrefixOf(hist.log, ShutdownSteps)
    /\ (exitStatus = ExitSignal => hist.log = ShutdownSteps /\ msrvClosed)
    /\ (hist.taken /\ mainPc = "exited" => exitStatus = ExitSignal)
    /\ (mainPc = "exited" /\ started = 0 /\ ~hist.taken
           => exitStatus \notin {0, ExitSignal})

\* C16: a configuration with a non-empty inclusion list and human-readable
\* mode is rejected at startup: the control loop is never entered, no cycle
\* starts, neither a cycle nor cleanUp calls the registry, and the process
\* exits with the status of an error of Main, which is neither 0 nor 130.
C16_ExclusiveFlagsRejected ==
    (Len(only) > 0 /\ humanReadable)
        => /\ mainPc \in {"start", "exited"}
           /\ started = 0 /\ ticks = 0
           /\ \A c \in 1..MaxTicks : cycles[c] = NoCycle
           /\ clean = NoClean /\ hist.log = << >>
           /\ ~mutex /\ ~ctxCancelled
           /\ (mainPc = "exited"
                  => exitStatus = ExitError /\ exitStatus \notin {0, ExitSignal})

\* the process exited on --only=8086_0044 with --human-readable
C16_Witness ==
    /\ Len(only) > 0 /\ humanReadable
    /\ mainPc = "exited" /\ exitStatus = ExitError

\* C17 as claimed: the patch of a cycle is conditioned on the node as
\* fetched: when the labels of the node changed between the fetch and the
\* patch of the cycle, the patch is not applied and the cycle fails.
C17_PatchConditionedOnFetch ==
    [][\A c \in 1..MaxTicks :
          (cycles[c].pc = "patch" /\ cycles'[c].pc = "return"
           /\ FetchedLabels # cycles[c].node)
              => (nodeLabels' = nodeLabels /\ cycles'[c].err)]_vars

\* C17 as amended: the patch of a cycle holds the label differences between
\* the node as fetched and as merged and no condition on the node: whenever
\* the registry receives it, the registry applies it to the labels the node
\* has then, changed since the fetch or not; the cycle fails only when the
\* request or its answer fails.
C17_PatchAppliedToCurrent ==
    [][\A c \in 1..MaxTicks :
          (cycles[c].pc = "patch" /\ cycles'[c].pc = "return")
              => /\ cycles'[c].sent
                       => nodeLabels' = ApplyPatch(nodeLabels, cycles[c].patch)
                 /\ ~cycles'[c].sent
                       => (nodeLabels' = nodeLabels /\ cycles'[c].err)]_vars

\* a cycle whose patch set a key of the inventory on a node that got a
\* label of another actor after the cycle fetched it: the patch succeeded
\* and the label of the other actor is on the node
C17_Witness ==
    \E c \in 1..MaxTicks :
        /\ cycles[c].pc = "return" /\ cycles[c].sent /\ ~cycles[c].err
        /\ cycles[c].patch.kind = "merge"
        /\ \E k \in DOMAIN nodeLabels :
              k \notin Keys(cycles[c].node) /\ k \notin Keys(cycles[c].nl)
        /\ \E k \in Keys(cycles[c].nl) : k \in DOMAIN nodeLabels

\* C19: while a cycle is in flight the control loop can take the signal: in
\* no reachable state does the control loop wait for the mutex in the timer
\* case, outside the shutdown handler.
C19_LoopNeverWaitsForMutex == ~(mainPc = "tickLock" /\ mutex)

\* C20: shutdown terminates: when the goroutines are scheduled and every
\* cycle in flight returns, a signal delivered to the process is followed by
\* the handler taking it, waiting for the cycle, running cleanUp and exiting
\* with status 130; the control loop does not wait for the mutex for ever.
C20_ShutdownTerminates ==
    (\A c \in 1..MaxTicks : [](InFlight(c) => <>(cycles[c].pc = "done")))
        => (hist.signalled
               ~> (exitStatus = ExitSignal /\ hist.log = ShutdownSteps))

\* the process exited with 130 after the handler waited for a cycle that
\* was in flight when the signal was taken, with ticks of the run left
C20_Witness ==
    /\ exitStatus = ExitSignal /\ hist.drained /\ hist.log = ShutdownSteps
    /\ ticks < MaxTicks
    /\ \E c \in 1..MaxTicks : cycles[c].pc = "done"

\* the value of the label k in the label function f, << >> when f has no k
LabelAt(f, k) == IF k \in DOMAIN f THEN <<f[k]>> ELSE << >>

\* C22: the patch of a cycle holds the label differences only: a label not
\* under <prefix>/ that another actor added, changed or removed between the
\* fetch and the patch of the cycle is, after the patch, as that actor left
\* it.
C22_ForeignWritesSurvivePatch ==
    [][\A c \in 1..MaxTicks :
          (cycles[c].pc = "patch" /\ cycles'[c].pc = "return")
              => \A k \in ActorKeys :
                    (~UnderPrefix(k)
                     /\ LabelAt(nodeLabels, k) # LabelAt(cycles[c].node.kv, k))
                        => LabelAt(nodeLabels', k) = LabelAt(nodeLabels, k)]_vars

\* how far a cycle goroutine is
Rank(pc) ==
    CASE pc = "unstarted" -> 0
      [] pc = "getNode" -> 1
      [] pc = "scanUSB" -> 2
      [] pc = "patch" -> 3
      [] pc = "return" -> 4
      [] pc \in {"done", "panicked"} -> 5

\* C23: no retry inside a cycle: a cycle only moves forward through getNode,
\* scanUSB, Patch and its return, so it fetches at most once and patches at
\* most once; once one of them failed the cycle only returns, without a
\* further call; every cycle was started by a tick of its own.
C23_NoRetryInCycle ==
    [][/\ \A c \in 1..MaxTicks :
             /\ cycles'[c] # cycles[c] => Rank(cycles'[c].pc) > Rank(cycles[c].pc)
             /\ cycles'[c].err => cycles'[c].pc \in {"return", "done"}
             /\ (cycles[c].err /\ cycles'[c] # cycles[c])
                   => /\ cycles'[c].pc = "done"
                      /\ nodeLabels' = nodeLabels
       /\ started' <= ticks'
       /\ started' \in {started, started + 1}]_vars

\* a cycle that failed and is done, and the cycle of the next tick about to
\* patch
C23_Witness ==
    \E c, d \in 1..MaxTicks :
        /\ c < d
        /\ cycles[c].pc = "done" /\ cycles[c].err
        /\ cycles[d].pc = "patch"

\* C24: a cycle whose getNode or scanUSB fails merges nothing and sends no
\* patch: it goes to its return with the error, the labels of the node
\* are not changed by it, and it is counted with success="false".
C24_FailedFetchOrScanPatchesNothing ==
    [][\A c \in 1..MaxTicks :
          /\ (cycles[c].pc \in {"getNode", "scanUSB"} /\ cycles'[c].err)
                => /\ cycles'[c].pc = "return"
                   /\ cycles'[c].patch = NoPatch /\ ~cycles'[c].sent
                   /\ cycles'[c].nl = NilMap
                   /\ nodeLabels' = nodeLabels
          /\ (cycles[c].pc = "return" /\ cycles[c].err
              /\ cycles'[c].pc = "done")
                => /\ nodeLabels' = nodeLabels
                   /\ reconcilingCounter'.false = reconcilingCounter.false + 1
                   /\ reconcilingCounter'.true = reconcilingCounter.true]_vars

\* a cycle that fetched the node, failed to scan and is done, counted as
\* failed, with the labels of the node as they were
C24_Witness ==
    /\ started = 1 /\ cycles[1].pc = "done" /\ cycles[1].err
    /\ reconcilingCounter.false = 1 /\ reconcilingCounter.true = 0
    /\ writes = 0
    /\ DOMAIN nodeLabels = {<<"k", "8", "s", ".", "i", "o", "/", "h", "o", "s", "t">>}

\* C25: a failure of a cycle is not fatal: no cycle ends the process, and
\* once a cycle was started the process exits through the shutdown handler
\* only.
C25_CycleFailureNonFatal ==
    /\ \A c \in 1..MaxTicks : cycles[c].pc # "panicked"
    /\ (started > 0 /\ mainPc = "exited") => exitStatus = ExitSignal

\* the cycles that returned
Finished == {c \in 1..MaxTicks : cycles[c].pc = "done"}

\* C26: every cycle that finishes increments exactly one of the two
\* counters once, "true" when scanAndLabel returned nil and "false"
\* otherwise: the counters count the finished cycles by outcome, and
\* their sum is the number of finished cycles.
C26_CountersCountFinishedCycles ==
    /\ reconcilingCounter.true
          = Cardinality({c \in Finished : ~cycles[c].err})
    /\ reconcilingCounter.false
          = Cardinality({c \in Finished : cycles[c].err})
    /\ reconcilingCounter.true + reconcilingCounter.false
          = Cardinality(Finished)

\* a cycle counted as failed and a cycle counted as successful
C26_Witness ==
    /\ reconcilingCounter.true = 1 /\ reconcilingCounter.false = 1
    /\ Cardinality(Finished) = 2

\* C28: cleanup is not subject to the cancellation: when the handler is at
\* cleanUp the context of the cycles is cancelled, and yet the fetch of
\* cleanUp can return the node and, after it, the patch of cleanUp can be
\* applied by the registry.
C28_CleanUpIgnoresCancellation ==
    /\ (Running /\ mainPc = "cleanUp")
          => /\ ctxCancelled
             /\ ENABLED (CleanGetNode /\ clean'.fetched)
    /\ (Running /\ mainPc = "cleanPatch")
          => /\ ctxCancelled /\ clean.fetched
             /\ ENABLED (CleanPatch /\ clean'.applied)

\* cleanUp fetched the node and its patch removed a managed key from it,
\* with the context cancelled before
C28_Witness ==
    /\ ctxCancelled /\ clean.fetched /\ clean.applied
    /\ sPrintLabelKey(Tokens[1]) \in Keys(clean.node)
    /\ sPrintLabelKey(Tokens[1]) \notin DOMAIN nodeLabels

NotDropped == {d \in pure.devs : ~Dropped(d)}

\* C30 as claimed: the raw key is injective, so in raw mode the inventory
\* has as many keys as there are scanned identifiers that are not excluded.
C30_RawKeysCountIdentifiers ==
    (Scanned /\ ~humanReadable)
        => /\ \A d, e \in pure.devs :
                 d # e => sPrintLabelKey(hexKey(d)) # sPrintLabelKey(hexKey(e))
           /\ Cardinality(Keys(pure.ret.l)) = Cardinality(NotDropped)

\* C30 as amended: two scanned identifiers that differ in the vendor or in
\* the product code have different raw keys, and in raw mode without an
\* inclusion list the inventory has exactly the raw keys of the scanned
\* identifiers that are not excluded, as many keys as identifiers, all
\* "true"; with an inclusion list it has as many keys as the list has
\* distinct entries.
C30_RawKeysInjective ==
    (Scanned /\ ~humanReadable)
        => /\ \A d, e \in pure.devs :
                 d # e => sPrintLabelKey(hexKey(d)) # sPrintLabelKey(hexKey(e))
           /\ Len(only) = 0
                 => /\ Keys(pure.ret.l)
                          = {sPrintLabelKey(hexKey(d)) : d \in NotDropped}
                    /\ Cardinality(Keys(pure.ret.l)) = Cardinality(NotDropped)
                    /\ \A k \in Keys(pure.ret.l) : pure.ret.l.kv[k] = "true"
           /\ Len(only) > 0
                 => Cardinality(Keys(pure.ret.l))
                       = Cardinality({only[i] : i \in DOMAIN only})

\* a raw-mode scan without inclusion list that finds two devices of one
\* vendor, two devices of one product code, and a device that is excluded
C30_Witness ==
    /\ Scanned /\ ~humanReadable /\ Len(only) = 0
    /\ \E d, e \in NotDropped : d.Vendor = e.Vendor /\ d.Product # e.Product
    /\ \E d, e \in pure.devs : d.Vendor # e.Vendor /\ d.Product = e.Product
    /\ NotDropped # pure.devs
    /\ Cardinality(Keys(pure.ret.l)) >= 2

====
